---- MODULE Spec2Model ----
(***************************************************************************)
(* pping-go: passive TCP round-trip measurement (src/pping.go).            *)
(*                                                                         *)
(* Time is counted in ticks of 50 ms (TicksPerSec ticks per second); the   *)
(* float64 seconds of the program are integers in that unit.  A flow key   *)
(* "ip:port+ip:port" is the pair <<src, dst>> of endpoints, a TS key       *)
(* "ip:port+ip:port+tsval" is the pair <<flow key, tsval>>: the string     *)
(* concatenations of the program are injective on these components.        *)
(* Capture timestamps are taken to be non-decreasing.                      *)
(* The rounding of float64 arithmetic is not modelled, nor is the flushing *)
(* of standard output (clockNow, nextFlush), which affects no other state. *)
(* A nil dereference ends the program: pc = "panic" with the writes made   *)
(* before it.                                                              *)
(***************************************************************************)
EXTENDS Integers, Sequences, FiniteSets, TLC

VARIABLES
    \* configuration (package variables set by the flags in main)
    sumInt, tsvalMaxAge, flowMaxIdle, maxPackets, timeToRun, filtLocal, localIP,
    \* the command line that set them: --showLocal, -i, and the address that
    \* localAddrOf finds for the interface
    args,
    \* package state
    flows, tsTbl, offTm, capTm, startm,
    pktCnt, not_tcp, no_TS, not_v4or6, uniDir, flowCnt,
    \* locals of main and the position in its loop
    nxtSum, nxtClean, pc, pkt,
    \* the capture source: timestamp of the last packet delivered, and the
    \* packets delivered so far with their timestamps
    wall, trace,
    \* standard output: RTT lines, summary lines, the "first packet" notice
    out, sums, notice,
    \* history (not program state): for each TS key the packet that deposited
    \* it when it was last absent from tsTbl (capture time tm, index n), the
    \* keys that ever had a flow record, the RTTs printed for each live record,
    \* the number of packets that reached the end of processPacket since the
    \* start of the run, and for each live record the index of the packet that
    \* created it (born) and of the packet that set its revFlow (paired, 0 if
    \* none has)
    firstDep, everRec, rtts, counted, life

cfg == <<sumInt, tsvalMaxAge, flowMaxIdle, maxPackets, timeToRun, filtLocal, localIP>>
tables == <<flows, tsTbl, flowCnt>>
clock == <<offTm, capTm, startm>>
counters == <<pktCnt, not_tcp, no_TS, not_v4or6, uniDir>>
loopvars == <<nxtSum, nxtClean>>
hist == <<firstDep, everRec, rtts, counted, life>>
vars == <<cfg, args, tables, clock, counters, loopvars, pc, pkt, wall, trace, out, sums, notice, hist>>

\* number of packets delivered so far
nPkts == Len(trace)

----
\* Bounds of the model

\* packets delivered by the capture source in one run
MaxPkts == 3

\* packets delivered in one run of the two-flow specification SpecDeep
MaxDeep == 5

\* packets delivered in one run of the scenario specification SpecS1
MaxS1 == 4

\* ticks per second (one tick is 50 ms)
TicksPerSec == 20

\* maximum number of flow records (10000 in the program, scaled down)
maxFlows == 2

\* initial value of flowRec.min (1e30 in the program, scaled down)
minInit == 1000000

----
\* Endpoints, keys and packets

A == <<"10.0.0.1", 1000>>
B == <<"10.0.0.2", 2000>>
C == <<"10.0.0.3", 3000>>

IPOf(e) == e[1]

\* fstr and the reverse key dstStr+"+"+srcStr
FlowKey(src, dst) == <<src, dst>>
RevKey(src, dst) == <<dst, src>>
\* fstr+"+"+FormatUint(tsval)
TSKey(fkey, ts) == <<fkey, ts>>

NoPkt == [tcp |-> FALSE, ip |-> FALSE, src |-> A, dst |-> A, tsval |-> 0, tsecr |-> 0, syn |-> FALSE, len |-> 0]

EmptyMap == [x \in {} |-> 0]
Put(m, k, v) == [x \in (DOMAIN m) \cup {k} |-> IF x = k THEN v ELSE m[x]]
Del(m, S) == [x \in (DOMAIN m) \ S |-> m[x]]

\* time.Time.Unix() and time.Time.Nanosecond() of a capture timestamp
Unix(w) == w \div TicksPerSec
Nanosecond(w) == w % TicksPerSec

Abs(x) == IF x < 0 THEN -x ELSE x

----
\* addTS, getTS

\* (variant: an entry already present and pending has its time refreshed)
addTSTouch(tbl, key, ti) ==
    IF key \notin DOMAIN tbl THEN Put(tbl, key, ti)
    ELSE IF tbl[key].t > 0 THEN [tbl EXCEPT ![key].t = ti.t] ELSE tbl

\* (variant: an entry already present is replaced by the new one)
addTSRefresh(tbl, key, ti) == Put(tbl, key, ti)

addTS(tbl, key, ti) == IF key \in DOMAIN tbl THEN tbl ELSE Put(tbl, key, ti)

HasTS(tbl, key) == key \in DOMAIN tbl

\* (variant: TSecr = 0 is rejected on a SYN as well)
NoTSStrict(p) == p.tsval = 0 \/ p.tsecr = 0

\* the eligibility test of processPacket on (tsval, tsecr, SYN)
NoTS(p) == p.tsval = 0 \/ (p.tsecr = 0 /\ ~p.syn)

newFlowRec(rev) == [last_tm |-> 0, min |-> minInit, bytesSnt |-> 0, lstBytesSnt |-> 0, bytesDep |-> 0, revFlow |-> rev]

\* the TS entry a packet deposits
newTsInfo(t, fBytes, dBytes) == [t |-> t, fBytes |-> fBytes, dBytes |-> dBytes]

\* (variant: the test is made on the source address)
DepositsSrc(p) == ~filtLocal \/ localIP # IPOf(p.src)

\* the local-traffic test guarding addTS
Deposits(p) == ~filtLocal \/ localIP # IPOf(p.dst)

\* (variant: the matched entry is left as it is)
MarkUsedKeep(ti) == ti

\* a matched entry is marked used by negating its time
MarkUsed(ti) == [ti EXCEPT !.t = -ti.t]

\* (variant: a used entry matches again)
PendingNonZero(ti) == ti.t # 0

\* the guard of the echo match
Pending(ti) == ti.t > 0

\* (variant: the comparison is reversed)
MinRttMax(old, rtt) == IF old < rtt THEN rtt ELSE old

MinRtt(old, rtt) == IF old > rtt THEN rtt ELSE old

----
\* main: flag parsing and set-up.  c.l is --showLocal, c.live is -i, c.addr is
\* what localAddrOf returns for the interface.

FlagFiltLocal(c) == IF c.live /\ c.l /\ c.addr = "" THEN FALSE ELSE c.l

FlagLocalIP(c) == IF c.live /\ c.l THEN c.addr ELSE ""

Setup(c) ==
    /\ sumInt = c.q /\ tsvalMaxAge = c.M /\ flowMaxIdle = c.F
    /\ maxPackets = c.c /\ timeToRun = c.s
    /\ filtLocal = FlagFiltLocal(c) /\ localIP = FlagLocalIP(c)
    /\ args = [l |-> c.l, live |-> c.live, addr |-> c.addr]
    /\ flows = EmptyMap /\ tsTbl = EmptyMap
    /\ offTm = -1 /\ capTm = 0 /\ startm = 0
    /\ pktCnt = 0 /\ not_tcp = 0 /\ no_TS = 0 /\ not_v4or6 = 0 /\ uniDir = 0 /\ flowCnt = 0
    /\ nxtSum = 0 /\ nxtClean = 0 /\ pc = "read" /\ pkt = NoPkt
    /\ wall = c.w /\ trace = << >>
    /\ out = << >> /\ sums = << >> /\ notice = FALSE
    /\ firstDep = EmptyMap /\ everRec = {} /\ rtts = EmptyMap
    /\ counted = 0 /\ life = EmptyMap

----
\* processPacket

\* a packet without a TCP layer
RejectNotTCP ==
    /\ not_tcp' = not_tcp + 1
    /\ UNCHANGED <<pktCnt, no_TS, not_v4or6, uniDir, tables, clock, out, notice, hist>>
    /\ pc' = "term"

\* TSval = 0, or TSecr = 0 on a packet that is not a SYN
RejectNoTS ==
    /\ no_TS' = no_TS + 1
    /\ UNCHANGED <<pktCnt, not_tcp, not_v4or6, uniDir, tables, clock, out, notice, hist>>
    /\ pc' = "term"

\* (variant: the packet without an IP layer is counted as processed too)
RejectNotIPCounted ==
    /\ not_v4or6' = not_v4or6 + 1 /\ pktCnt' = pktCnt + 1
    /\ UNCHANGED <<not_tcp, no_TS, uniDir, tables, clock, out, notice, hist>>
    /\ pc' = "term"

\* neither IPv4 nor IPv6
RejectNotIP ==
    /\ not_v4or6' = not_v4or6 + 1
    /\ UNCHANGED <<pktCnt, not_tcp, no_TS, uniDir, tables, clock, out, notice, hist>>
    /\ pc' = "term"

\* (variant: the whole seconds since the first packet are dropped)
CapTimeNoSeconds(w) == Nanosecond(w)

\* capture time of a packet with timestamp w: the first packet anchors the clock
CapTime(w) == IF offTm < 0 THEN Nanosecond(w) ELSE (Unix(w) - offTm) * TicksPerSec + Nanosecond(w)

\* (variant: the table takes one record more)
TableFullLate(cnt) == cnt > maxFlows

\* (variant: no capacity test)
TableFullNever(cnt) == FALSE

\* the capacity test made when a packet's flow has no record
TableFull(cnt) == cnt >= maxFlows

\* (variant: a new record is taken to be bi-directional at once)
AcquireBidir(fstr, rstr) == IF fstr \in DOMAIN flows THEN flows ELSE Put(flows, fstr, newFlowRec(TRUE))

\* (variant: revFlow is set on the new record only)
AcquireOneSided(fstr, rstr) ==
    IF fstr \in DOMAIN flows THEN flows
    ELSE Put(flows, fstr, newFlowRec(rstr \in DOMAIN flows))

\* lookup-or-insert of the flow record, revFlow set on both directions
Acquire(fstr, rstr) ==
    IF fstr \in DOMAIN flows THEN flows
    ELSE IF rstr \in DOMAIN flows
         THEN [Put(flows, fstr, newFlowRec(TRUE)) EXCEPT ![rstr].revFlow = TRUE]
         ELSE Put(flows, fstr, newFlowRec(FALSE))

\* (variant: the count restarts with every packet)
AddBytesLast(snt, len) == len

\* bytesSnt after a packet of wire length len
AddBytes(snt, len) == snt + len

\* (variant: the report mark is left where it was)
LastReportKeep(old, arr) == old

\* lstBytesSnt after a sample emitted at bytesSnt = arr
LastReport(old, arr) == arr

\* (variant: the bytes are counted from the start of the record)
PBytesTotal(arr, lst) == arr

\* bytes sent on the flow since its previous sample
PBytes(arr, lst) == arr - lst

\* the packet from the clock anchoring on (w is its capture timestamp, n its index)
Measure(p, w, n) ==
    LET first == offTm < 0
        cap1 == CapTime(w)
        fstr == FlowKey(p.src, p.dst)
        rstr == RevKey(p.src, p.dst)
        full == fstr \notin DOMAIN flows /\ TableFull(flowCnt)
        flows2 == [Acquire(fstr, rstr) EXCEPT ![fstr].last_tm = cap1]
        fr == flows2[fstr]
        arr_fwd == AddBytes(fr.bytesSnt, p.len)
        flows3 == [flows2 EXCEPT ![fstr].bytesSnt = arr_fwd]
        dkey == TSKey(fstr, p.tsval)
        ts1 == IF Deposits(p) THEN addTS(tsTbl, dkey, newTsInfo(cap1, arr_fwd, fr.bytesDep)) ELSE tsTbl
        ekey == TSKey(rstr, p.tsecr)
        hit == HasTS(ts1, ekey) /\ Pending(ts1[ekey])
        ti == ts1[ekey]
        rtt == cap1 - ti.t
        newMin == MinRtt(fr.min, rtt)
        flows4 == [flows3 EXCEPT ![fstr].min = newMin, ![fstr].lstBytesSnt = LastReport(fr.lstBytesSnt, arr_fwd)]
        crash == rstr \notin DOMAIN flows4
        flows5 == [flows4 EXCEPT ![rstr].bytesDep = ti.fBytes]
        sample == [pkt |-> n, tm |-> cap1, flow |-> fstr, key |-> ekey, rtt |-> rtt, min |-> newMin,
                   fBytes |-> ti.fBytes, dBytes |-> ti.dBytes, pBytes |-> PBytes(arr_fwd, fr.lstBytesSnt)]
        stage == IF full THEN "full"
                 ELSE IF ~fr.revFlow THEN "uni"
                 ELSE IF ~hit THEN "nomatch"
                 ELSE IF crash THEN "crash"
                 ELSE "sample"
    IN  /\ offTm' = (IF first THEN Unix(w) ELSE offTm)
        /\ startm' = (IF first THEN Nanosecond(w) ELSE startm)
        /\ capTm' = cap1
        /\ notice' = (notice \/ (first /\ sumInt > 0))
        /\ flows' = CASE stage = "full" -> flows
                      [] stage = "uni" -> flows2
                      [] stage = "nomatch" -> flows3
                      [] stage = "crash" -> flows4
                      [] stage = "sample" -> flows5
        /\ flowCnt' = (IF stage # "full" /\ fstr \notin DOMAIN flows THEN flowCnt + 1 ELSE flowCnt)
        /\ uniDir' = (IF stage = "uni" THEN uniDir + 1 ELSE uniDir)
        /\ tsTbl' = CASE stage \in {"full", "uni"} -> tsTbl
                      [] stage \in {"nomatch", "crash"} -> ts1
                      [] stage = "sample" -> [ts1 EXCEPT ![ekey] = MarkUsed(ti)]
        /\ out' = (IF stage = "sample" THEN Append(out, sample) ELSE out)
        /\ pktCnt' = (IF stage \in {"nomatch", "sample"} THEN pktCnt + 1 ELSE pktCnt)
        \* the nil dereference of flows[rstr] ends the program
        /\ pc' = (IF stage = "crash" THEN "panic" ELSE "term")
        /\ UNCHANGED <<not_tcp, no_TS, not_v4or6>>
        /\ firstDep' = (IF stage \in {"nomatch", "crash", "sample"} /\ Deposits(p) /\ dkey \notin DOMAIN tsTbl
                         THEN Put(firstDep, dkey, [tm |-> cap1, n |-> n]) ELSE firstDep)
        /\ everRec' = (IF stage = "full" THEN everRec ELSE everRec \cup {fstr})
        /\ rtts' = LET r1 == IF stage # "full" /\ fstr \notin DOMAIN flows THEN Put(rtts, fstr, {}) ELSE rtts
                    IN  IF stage = "sample" THEN [r1 EXCEPT ![fstr] = @ \cup {rtt}] ELSE r1
        /\ counted' = (IF stage \in {"nomatch", "sample"} THEN counted + 1 ELSE counted)
        /\ life' = IF stage = "full" \/ fstr \in DOMAIN flows THEN life
                    ELSE IF rstr \in DOMAIN flows
                         THEN [Put(life, fstr, [born |-> n, paired |-> n])
                                  EXCEPT ![rstr].paired = IF @ = 0 THEN n ELSE @]
                         ELSE Put(life, fstr, [born |-> n, paired |-> 0])

processPacket(p, dt) ==
    /\ pc = "read"
    /\ wall' = wall + dt /\ trace' = Append(trace, [p |-> p, w |-> wall + dt]) /\ pkt' = p
    /\ UNCHANGED <<cfg, args, loopvars, sums>>
    /\ IF ~p.tcp THEN RejectNotTCP
       ELSE IF NoTS(p) THEN RejectNoTS
       ELSE IF ~p.ip THEN RejectNotIP
       ELSE Measure(p, wall + dt, nPkts + 1)

----
\* cleanUp and the tail of main's loop

\* (variant: the age is taken from the signed time)
StaleTSSigned(tbl, now) == {k \in DOMAIN tbl : now - tbl[k].t > tsvalMaxAge}

\* TS entries older than tsvalMaxAge at capture time now
StaleTS(tbl, now) == {k \in DOMAIN tbl : now - Abs(tbl[k].t) > tsvalMaxAge}

\* flow records idle for longer than flowMaxIdle at time n
IdleFlows(fl, n) == {k \in DOMAIN fl : n - fl[k].last_tm > flowMaxIdle}

\* flowCnt after the deletion of the idle flows
CountAfter(cnt, idle) == cnt - Cardinality(idle)

cleanUp(n) ==
    /\ tsTbl' = Del(tsTbl, StaleTS(tsTbl, capTm))
    /\ flows' = Del(flows, IdleFlows(flows, n))
    /\ flowCnt' = CountAfter(flowCnt, IdleFlows(flows, n))
    /\ rtts' = Del(rtts, IdleFlows(flows, n))
    /\ life' = Del(life, IdleFlows(flows, n))

\* the line printSummary writes
printSummary == [flows |-> flowCnt, pkts |-> pktCnt, noTS |-> no_TS, uni |-> uniDir, notTCP |-> not_tcp, notIP |-> not_v4or6]

\* the run-time and packet-count limits
LimitReached ==
    \/ timeToRun > 0 /\ capTm - startm >= timeToRun
    \/ maxPackets > 0 /\ pktCnt >= maxPackets

CheckLimits ==
    /\ pc = "term"
    /\ IF LimitReached
       THEN sums' = Append(sums, printSummary) /\ pc' = "done"
       ELSE sums' = sums /\ pc' = "sum"
    /\ UNCHANGED <<cfg, args, tables, clock, counters, loopvars, pkt, wall, trace, out, notice, hist>>

\* (variant: the first scheduling prints and resets as well)
SumArmedAlways(nxt) == TRUE

\* the summary schedule has been armed before
SumArmed(nxt) == nxt > 0

Summarize ==
    /\ pc = "sum"
    /\ IF capTm >= nxtSum /\ sumInt > 0
       THEN /\ IF SumArmed(nxtSum)
               THEN /\ sums' = Append(sums, printSummary)
                    /\ pktCnt' = 0 /\ no_TS' = 0 /\ uniDir' = 0 /\ not_tcp' = 0 /\ not_v4or6' = 0
               ELSE UNCHANGED <<sums, counters>>
            /\ nxtSum' = capTm + sumInt
       ELSE UNCHANGED <<sums, counters, nxtSum>>
    /\ pc' = "clean"
    /\ UNCHANGED <<cfg, args, tables, clock, nxtClean, pkt, wall, trace, out, notice, hist>>

Sweep ==
    /\ pc = "clean"
    /\ IF capTm >= nxtClean
       THEN cleanUp(capTm) /\ nxtClean' = capTm + tsvalMaxAge
       ELSE UNCHANGED <<tables, nxtClean, rtts, life>>
    /\ pc' = "read"
    /\ UNCHANGED <<cfg, args, clock, counters, nxtSum, pkt, wall, trace, out, sums, notice, firstDep, everRec, counted>>

\* the capture source is exhausted: the range over the packet channel ends
EndOfCapture ==
    /\ pc = "read"
    /\ pc' = "eof"
    /\ UNCHANGED <<cfg, args, tables, clock, counters, loopvars, pkt, wall, trace, out, sums, notice, hist>>

----
\* Inputs

\* advance of the capture timestamp from one packet to the next
Dts == {0, 3}

TcpPkt(src, dst, v, e, syn) == [tcp |-> TRUE, ip |-> TRUE, src |-> src, dst |-> dst, tsval |-> v, tsecr |-> e, syn |-> syn, len |-> 1]

Packets ==
    {TcpPkt(A, B, 1, 1, FALSE), TcpPkt(A, B, 2, 1, FALSE),
     TcpPkt(B, A, 1, 1, FALSE), TcpPkt(B, A, 1, 2, FALSE),
     TcpPkt(C, A, 1, 1, FALSE), TcpPkt(A, B, 0, 1, FALSE),
     [NoPkt EXCEPT !.len = 1],
     [TcpPkt(C, A, 1, 1, FALSE) EXCEPT !.ip = FALSE]}

Config(q, M, F, c, s, l, live, addr, w) == [q |-> q, M |-> M, F |-> F, c |-> c, s |-> s, l |-> l, live |-> live, addr |-> addr, w |-> w]

Configs ==
    {Config(0, 2, 3, 0, 0, FALSE, TRUE, "10.0.0.1", 119),
     Config(2, 2, 1, 0, 0, FALSE, FALSE, "", 100),
     Config(2, 2, 3, 0, 0, TRUE, TRUE, "10.0.0.1", 119)}

Init == \E c \in Configs : Setup(c)

Run(P, D, N) ==
    \/ \E p \in P, dt \in D : nPkts < N /\ processPacket(p, dt)
    \/ CheckLimits
    \/ Summarize
    \/ Sweep
    \/ EndOfCapture

Next == Run(Packets, Dts, MaxPkts)

Spec == Init /\ [][Next]_vars

\* Two flows A->B and B->A echoing one TSval, in longer runs
DeepDts == {0, 1, 3}

DeepPackets == {TcpPkt(A, B, 1, 1, FALSE), TcpPkt(B, A, 1, 1, FALSE)}

NextDeep == Run(DeepPackets, DeepDts, MaxDeep)

SpecDeep == Init /\ [][NextDeep]_vars

\* Scenario S1: the four packets of the minimal echo, 50 ms apart, under the
\* default intervals (10 s, 10 s, 300 s) and every command line: --showLocal
\* given or not, a live interface with or without a discoverable address or a
\* capture file; the capture starts one tick before a full second
S1P1 == [TcpPkt(A, B, 100, 0, TRUE) EXCEPT !.len = 100]
S1P2 == [TcpPkt(B, A, 500, 0, TRUE) EXCEPT !.len = 100]
S1P3 == [TcpPkt(A, B, 101, 500, FALSE) EXCEPT !.len = 100]
S1P4 == [TcpPkt(B, A, 501, 101, FALSE) EXCEPT !.len = 100]

S1Packets == {S1P1, S1P2, S1P3, S1P4}

S1Dts == {0, 1}

InitS1 ==
    \E l \in BOOLEAN, live \in BOOLEAN :
        \E addr \in (IF live THEN {"", IPOf(A)} ELSE {""}) :
            Setup(Config(10 * TicksPerSec, 10 * TicksPerSec, 300 * TicksPerSec, 0, 0, l, live, addr, 6 * TicksPerSec - 1))

NextS1 == Run(S1Packets, S1Dts, MaxS1)

SpecS1 == InitS1 /\ [][NextS1]_vars

\* Timestamp options: every combination of TSval, TSecr and SYN on flow A->B,
\* an echo on B->A, and packets without a TCP layer or without an IP layer
MaxOpt == 3

OptDts == {1}

OptPackets ==
    {TcpPkt(A, B, v, e, syn) : v \in {0, 1}, e \in {0, 1}, syn \in BOOLEAN}
        \cup {TcpPkt(B, A, 1, 1, FALSE), [NoPkt EXCEPT !.len = 1],
              [TcpPkt(A, B, 1, 0, TRUE) EXCEPT !.ip = FALSE],
              [TcpPkt(A, B, 1, 0, FALSE) EXCEPT !.ip = FALSE]}

NextOpt == Run(OptPackets, OptDts, MaxOpt)

SpecOpt == Init /\ [][NextOpt]_vars

\* Packet-count limit: -c 3 without and with summary reports, and a run-time
\* limit -s of four ticks, on the two flows A->B and B->A
MaxLimit == 4

LimitDts == {0, 3}

LimitConfigs ==
    {Config(0, 2, 3, 3, 0, FALSE, FALSE, "", 119),
     Config(2, 2, 3, 3, 0, FALSE, FALSE, "", 119),
     Config(0, 2, 3, 0, 4, FALSE, FALSE, "", 119)}

InitLimit == \E c \in LimitConfigs : Setup(c)

NextLimit == Run(DeepPackets, LimitDts, MaxLimit)

SpecLimit == InitLimit /\ [][NextLimit]_vars

\* Flow eviction before TS eviction: -F shorter than -M, packets of different
\* lengths on the flows A->B and B->A, one of them echoing no anchor
MaxEvict == 4

EvictDts == {0, 1, 2}

EvictPackets ==
    {TcpPkt(A, B, 1, 1, FALSE),
     [TcpPkt(B, A, 1, 1, FALSE) EXCEPT !.len = 2],
     [TcpPkt(A, B, 1, 2, FALSE) EXCEPT !.len = 4]}

InitEvict == Setup(Config(0, 2, 1, 0, 0, FALSE, FALSE, "", 119))

NextEvict == Run(EvictPackets, EvictDts, MaxEvict)

SpecEvict == InitEvict /\ [][NextEvict]_vars

----
\* Properties

Samples == 1..Len(out)

\* the packet processed last emitted an RTT line
JustSampled == out # << >> /\ out[Len(out)].pkt = nPkts

\* the packet passes the three rejection tests of processPacket
Eligible(p) == p.tcp /\ ~NoTS(p) /\ p.ip

\* the TS key a packet deposits and the TS key its TSecr looks up
DepKey(p) == TSKey(FlowKey(p.src, p.dst), p.tsval)
EchoKey(p) == TSKey(RevKey(p.src, p.dst), p.tsecr)

\* C1 as stated: over the whole run no two RTT samples come from the same
\* (flow_key, TSval), also when the consumed entry was aged out and the TSval
\* deposited again.
C1_OneSamplePerKey == \A i, j \in Samples : out[i].key = out[j].key => i = j

\* C1 as amended: every TS entry yields at most one RTT sample.  Since the
\* entry now in the table under (flow_key, TSval) was deposited, at most one
\* sample has come from that key; another one needs a sweeper pass that
\* evicts the entry and a new deposit of the TSval.
C1_OneSamplePerEntry ==
    \A k \in DOMAIN tsTbl :
        Cardinality({i \in Samples : out[i].key = k /\ out[i].pkt > firstDep[k].n}) <= 1

\* a key that gave a sample, was evicted, deposited again and consumed again
C1_Witness ==
    \E i \in Samples : LET k == out[i].key IN
        /\ k \in DOMAIN tsTbl /\ firstDep[k].n > out[i].pkt
        /\ tsTbl[k].t < 0

\* the packets delivered so far are exactly packets 1..4 of S1, 50 ms apart
S1Run ==
    /\ Len(trace) = 4
    /\ trace[1].p = S1P1 /\ trace[2].p = S1P2 /\ trace[3].p = S1P3 /\ trace[4].p = S1P4
    /\ \A i \in 1..4 : trace[i].w = trace[1].w + (i - 1)

\* the local filter suppresses the anchors of packets sent to A
FilterOnA == filtLocal /\ localIP = IPOf(A)

FirstBearing(k, n) ==
    LET idx == {j \in 1..n : trace[j].p.tcp /\ trace[j].p.ip /\ DepKey(trace[j].p) = k}
    IN  CHOOSE j \in idx : \A m \in idx : j <= m

\* C3 as stated: every RTT sample is the capture time of the echoing packet
\* minus the capture time of the earliest packet of the reverse flow that
\* carried the echoed TSval, and is not negative.
C3_RttFromFirstBearing ==
    \A i \in Samples :
        /\ out[i].rtt = trace[out[i].pkt].w - trace[FirstBearing(out[i].key, out[i].pkt)].w
        /\ out[i].rtt >= 0

\* C3 as amended: every RTT sample is the capture time of the echoing packet
\* minus the capture time of the anchor packet, and is not negative; the
\* anchor packet is the earliest packet bearing the TSval on the reverse flow
\* that reached the TS insert (bi-directionality gate passed, not suppressed
\* by the local filter) since the key was last absent from the TS table.
C3_RttFromAnchor ==
    JustSampled =>
        LET s == out[Len(out)] IN
        /\ s.tm = capTm
        /\ firstDep[s.key].n < s.pkt
        /\ s.rtt = s.tm - firstDep[s.key].tm
        /\ s.rtt >= 0

\* a sample whose anchor packet is not the first packet that bore the TSval
C3_Witness ==
    /\ JustSampled
    /\ LET s == out[Len(out)] IN
        /\ FirstBearing(s.key, s.pkt) < firstDep[s.key].n
        /\ trace[FirstBearing(s.key, s.pkt)].w < trace[firstDep[s.key].n].w

SetMin(S) == CHOOSE x \in S : \A y \in S : x <= y

\* min_rtt of every flow record is at most every RTT printed for the record
\* and, while the program runs, equal to the smallest of them (to the initial
\* value before the first); the min printed with a sample is the record's
C4_MinOfSamples ==
    /\ \A f \in DOMAIN flows :
        /\ \A r \in rtts[f] : flows[f].min <= r
        /\ pc # "panic" => flows[f].min = (IF rtts[f] = {} THEN minInit ELSE SetMin(rtts[f]))
    /\ JustSampled /\ pc = "term" => out[Len(out)].min = flows[out[Len(out)].flow].min

\* min_rtt of a flow record never grows
C4_MinNonIncreasing == \A f \in (DOMAIN flows) \cap (DOMAIN flows') : flows'[f].min <= flows[f].min

PacketStep == pc = "read" /\ pc' \in {"term", "panic"}

\* the flow keys of the packet that the step processes
StepFlow == FlowKey(pkt'.src, pkt'.dst)
StepRev == RevKey(pkt'.src, pkt'.dst)

\* C5: a flow emits no RTT sample before its reverse sibling has been
\* observed, and as long as the reverse direction has never been observed
\* (has never had a flow record) every eligible packet of the flow that is
\* admitted to the flow table increments uni_dir, does not increment pkt_cnt,
\* emits nothing and deposits nothing.
C5_UniDirectional ==
    [][PacketStep =>
        /\ out' # out => StepRev \in everRec
        /\ (Eligible(pkt') /\ StepFlow \in DOMAIN flows' /\ StepRev \notin everRec)
              => /\ uniDir' = uniDir + 1 /\ pktCnt' = pktCnt
                 /\ out' = out /\ tsTbl' = tsTbl]_vars

\* the second packet in a row counted as uni-directional on a flow whose
\* reverse direction has never been seen
C5_Witness ==
    /\ pc = "term" /\ Eligible(pkt) /\ uniDir >= 2 /\ pktCnt = 0 /\ out = << >>
    /\ FlowKey(pkt.src, pkt.dst) \in DOMAIN flows
    /\ RevKey(pkt.src, pkt.dst) \notin everRec
    /\ nPkts >= 2 /\ trace[nPkts - 1].p = pkt

\* C6: in every reachable state flow_count is the number of records in the
\* flow table and is at most max_flows.
C6_FlowCount == flowCnt = Cardinality(DOMAIN flows) /\ flowCnt <= maxFlows

\* the table is full and the packet of a new flow has just been dropped
C6_Witness ==
    /\ pc = "term" /\ Eligible(pkt)
    /\ FlowKey(pkt.src, pkt.dst) \notin DOMAIN flows
    /\ flowCnt = maxFlows /\ Cardinality(DOMAIN flows) = maxFlows

\* C7: an echo that arrives more than tsval_max_age after the capture time
\* of its anchor produces no RTT sample.
C7_NoLateEcho ==
    JustSampled => capTm - firstDep[out[Len(out)].key].tm <= tsvalMaxAge

\* a step of main's loop that runs cleanUp
SweepDue == pc = "clean" /\ capTm >= nxtClean

TSAge(tbl, k) == capTm - Abs(tbl[k].t)
FlowIdle(fl, f) == capTm - fl[f].last_tm

\* C8: right after a sweeper pass at capture time T the TS table has no entry
\* with T - |t| > tsval_max_age and the flow table no record with
\* T - last_seen > flow_max_idle; the other entries and records are left in
\* place unchanged, and flow_count is decremented once per evicted flow.
C8_SweepPost ==
    [][SweepDue =>
        /\ \A k \in DOMAIN tsTbl' : TSAge(tsTbl', k) <= tsvalMaxAge
        /\ \A f \in DOMAIN flows' : FlowIdle(flows', f) <= flowMaxIdle
        /\ \A k \in DOMAIN tsTbl : TSAge(tsTbl, k) <= tsvalMaxAge => k \in DOMAIN tsTbl' /\ tsTbl'[k] = tsTbl[k]
        /\ \A f \in DOMAIN flows : FlowIdle(flows, f) <= flowMaxIdle => f \in DOMAIN flows' /\ flows'[f] = flows[f]
        /\ DOMAIN tsTbl' \subseteq DOMAIN tsTbl /\ DOMAIN flows' \subseteq DOMAIN flows
        /\ flowCnt' = flowCnt - Cardinality((DOMAIN flows) \ (DOMAIN flows'))]_vars

\* a sweeper pass has just run; a TS entry and a flow record have been
\* evicted, a used entry and a record have been kept
C8_Witness ==
    /\ pc = "read" /\ nPkts > 0 /\ nxtClean = capTm + tsvalMaxAge
    /\ (DOMAIN firstDep) \ (DOMAIN tsTbl) # {}
    /\ everRec \ (DOMAIN flows) # {}
    /\ flows # EmptyMap
    /\ \E k \in DOMAIN tsTbl : tsTbl[k].t < 0

\* C9: a used TS entry (t negated) is never matched again while it is in the
\* table: a packet whose TSecr refers to it emits no sample and leaves the
\* entry, the flow's min_rtt and last_bytes_sent_at_report and the reverse
\* flow's bytes_departed unchanged; a match negates t in place, the used
\* entry keeps its t until it leaves the table, and the sweeper evicts it by
\* the age of |t|.
C9_UsedEntry ==
    [][/\ PacketStep =>
            LET k == EchoKey(pkt') IN
            (k \in DOMAIN tsTbl /\ tsTbl[k].t < 0) =>
                /\ out' = out
                /\ k \in DOMAIN tsTbl' /\ tsTbl'[k] = tsTbl[k]
                /\ StepFlow \in DOMAIN flows =>
                      /\ flows'[StepFlow].min = flows[StepFlow].min
                      /\ flows'[StepFlow].lstBytesSnt = flows[StepFlow].lstBytesSnt
                /\ StepRev \in DOMAIN flows => flows'[StepRev].bytesDep = flows[StepRev].bytesDep
       /\ (PacketStep /\ out' # out) =>
            LET k == out'[Len(out')].key IN
            tsTbl[k].t > 0 /\ tsTbl'[k] = [tsTbl[k] EXCEPT !.t = -tsTbl[k].t]
       /\ \A k \in (DOMAIN tsTbl) \cap (DOMAIN tsTbl') : tsTbl[k].t < 0 => tsTbl'[k] = tsTbl[k]
       /\ SweepDue =>
            \A k \in DOMAIN tsTbl : (tsTbl[k].t < 0 /\ capTm + tsTbl[k].t > tsvalMaxAge) => k \notin DOMAIN tsTbl'
      ]_vars

\* a second echo of a used entry has just been processed on a bi-directional
\* flow, without a sample
C9_Witness ==
    /\ pc = "term" /\ Eligible(pkt) /\ ~JustSampled
    /\ EchoKey(pkt) \in DOMAIN tsTbl /\ tsTbl[EchoKey(pkt)].t < 0
    /\ \E i \in Samples : out[i].key = EchoKey(pkt) /\ out[i].flow = FlowKey(pkt.src, pkt.dst)
    /\ FlowKey(pkt.src, pkt.dst) \in DOMAIN flows /\ flows[FlowKey(pkt.src, pkt.dst)].revFlow

\* the time of every TS entry is the capture time of the first packet that
\* deposited its key
C10_Earliest == \A k \in DOMAIN tsTbl : Abs(tsTbl[k].t) = firstDep[k].tm

\* C10: inserting a TS key (flow_key, TSval) that is present leaves the
\* entry's t, f_bytes and d_bytes untouched, so the entry keeps the earliest
\* recorded arrival and a later echo's RTT is measured from it.
C10_FirstWriterWins ==
    [][/\ PacketStep =>
            LET k == DepKey(pkt') IN
            k \in DOMAIN tsTbl => k \in DOMAIN tsTbl' /\ tsTbl'[k] = tsTbl[k]
       /\ (PacketStep /\ out' # out) =>
            LET s == out'[Len(out')] IN s.rtt = capTm' - firstDep[s.key].tm
       /\ C10_Earliest'
      ]_vars

\* a packet bearing a TSval whose entry is pending has just passed the TS
\* insert at a later capture time than the entry's
C10_Witness ==
    /\ pc = "term" /\ Eligible(pkt) /\ Deposits(pkt)
    /\ FlowKey(pkt.src, pkt.dst) \in DOMAIN flows /\ flows[FlowKey(pkt.src, pkt.dst)].revFlow
    /\ DepKey(pkt) \in DOMAIN tsTbl
    /\ firstDep[DepKey(pkt)].n < nPkts
    /\ tsTbl[DepKey(pkt)].t > 0 /\ tsTbl[DepKey(pkt)].t < capTm

\* C11: a TCP packet is rejected as ineligible (no_TS incremented, nothing
\* else done) exactly when TSval = 0 or (TSecr = 0 and SYN clear); a SYN with
\* TSecr = 0 and TSval # 0 is not rejected and proceeds to flow acquisition,
\* a non-SYN with TSecr = 0 is always rejected.
C11_Ineligible ==
    [][(PacketStep /\ pkt'.tcp) =>
        LET p == pkt'
            rejected == no_TS' = no_TS + 1
        IN  /\ rejected <=> (p.tsval = 0 \/ (p.tsecr = 0 /\ ~p.syn))
            /\ ~rejected => no_TS' = no_TS
            /\ rejected => UNCHANGED <<tables, clock, pktCnt, not_tcp, not_v4or6, uniDir, out>>
            /\ (p.syn /\ p.tsecr = 0 /\ p.tsval # 0 /\ p.ip /\ ~TableFull(flowCnt)) =>
                  /\ ~rejected
                  /\ StepFlow \in DOMAIN flows' /\ flows'[StepFlow].last_tm = capTm'
            /\ (~p.syn /\ p.tsecr = 0) => rejected]_vars

\* a SYN with TSecr = 0 has just created its flow record, after a non-SYN
\* with TSecr = 0 and a non-zero TSval was rejected
C11_Witness ==
    /\ pc = "term" /\ pkt.tcp /\ pkt.ip /\ pkt.syn /\ pkt.tsecr = 0 /\ pkt.tsval # 0
    /\ FlowKey(pkt.src, pkt.dst) \in DOMAIN flows /\ life[FlowKey(pkt.src, pkt.dst)].born = nPkts
    /\ no_TS = 1 /\ nPkts = 2
    /\ trace[1].p.tcp /\ ~trace[1].p.syn /\ trace[1].p.tsecr = 0 /\ trace[1].p.tsval # 0

\* C12: when an eligible packet's forward key is absent from the flow table
\* and flow_count >= max_flows, no record is inserted and the packet is
\* dropped silently: the flow table, the TS table, flow_count and the counters
\* not_tcp, no_TS, not_v4or6, uni_dir and pkt_cnt are unchanged and no sample
\* is emitted.
C12_CapacityDrop ==
    [][(PacketStep /\ Eligible(pkt') /\ StepFlow \notin DOMAIN flows /\ flowCnt >= maxFlows) =>
        /\ flows' = flows /\ tsTbl' = tsTbl /\ flowCnt' = flowCnt
        /\ not_tcp' = not_tcp /\ no_TS' = no_TS /\ not_v4or6' = not_v4or6
        /\ uniDir' = uniDir /\ pktCnt' = pktCnt
        /\ out' = out]_vars

\* the third packet opened a third flow at a full table and is counted
\* nowhere, while the two packets before it were counted
C12_Witness ==
    /\ pc = "term" /\ Eligible(pkt) /\ nPkts = 3 /\ sumInt = 0
    /\ FlowKey(pkt.src, pkt.dst) \notin DOMAIN flows
    /\ flowCnt = maxFlows
    /\ pktCnt + uniDir + not_tcp + no_TS + not_v4or6 = 2

\* C13: with max_packets = N > 0 the driving loop terminates after
\* processPacket at the packet that brings the number of packets counted at
\* the end of processPacket since the start of the run to N, for every
\* setting of the summary interval, and prints one summary on termination:
\* once N packets have been counted the loop is at its limit test or has
\* ended with the summary, and it does not end before.
C13_StopAtCount ==
    (maxPackets > 0 /\ timeToRun = 0) =>
        /\ counted >= maxPackets => pc \in {"term", "done"}
        /\ pc = "done" => counted = maxPackets /\ sums # << >> /\ sums[Len(sums)] = printSummary

\* source and destination address of a flow key
SrcIP(f) == IPOf(f[1])
DstIP(f) == IPOf(f[2])

\* local filtering is in effect with a known local address
FilterOn == filtLocal /\ localIP # ""

\* C14 as stated: with local filtering enabled and a known local address L no
\* RTT sample is ever emitted for a flow whose destination IP equals L.
C14_NoSampleToLocal == FilterOn => \A i \in Samples : DstIP(out[i].flow) # localIP

\* with the filter on, no TS entry is held for a flow towards L and no sample
\* is printed for a flow from L
C14_NoAnchorToLocal ==
    FilterOn =>
        /\ \A k \in DOMAIN tsTbl : DstIP(k[1]) # localIP
        /\ \A i \in Samples : SrcIP(out[i].flow) # localIP /\ DstIP(out[i].key[1]) # localIP

\* with the filter off, every packet that passes the bi-directionality gate
\* leaves its anchor in the TS table whatever its destination, and a pending
\* anchor echoed on a flow whose reverse record exists gives a sample
C14_UnfilteredStep ==
    (PacketStep /\ ~FilterOn /\ Eligible(pkt') /\ StepFlow \in DOMAIN flows' /\ flows'[StepFlow].revFlow) =>
        /\ DepKey(pkt') \in DOMAIN tsTbl'
        /\ (EchoKey(pkt') \in DOMAIN tsTbl /\ tsTbl[EchoKey(pkt')].t > 0 /\ StepRev \in DOMAIN flows) =>
              /\ Len(out') = Len(out) + 1
              /\ out'[Len(out')].flow = StepFlow /\ out'[Len(out')].key = EchoKey(pkt')

\* C14 as amended: with local filtering enabled and a known local address L,
\* packets whose destination IP equals L deposit no anchor, so no RTT sample
\* is ever emitted that measures a flow whose destination IP equals L; such a
\* sample would be printed on the echoing packet, for the flow whose source
\* IP equals L.  Samples printed for flows whose destination IP equals L
\* (echoes, arriving at the local host, of TSvals it sent) are emitted.  With
\* filtering disabled both kinds are emitted like any other.
C14_LocalFilter == []C14_NoAnchorToLocal /\ [][C14_UnfilteredStep]_vars

\* with the filter on L, a sample has been printed for a flow towards L, and
\* a packet from L echoing the TSval that sample's packet bore has just been
\* counted without a sample, the TSval having left no anchor
C14_Witness ==
    /\ FilterOn /\ pc = "term" /\ Eligible(pkt) /\ IPOf(pkt.src) = localIP
    /\ ~JustSampled
    /\ FlowKey(pkt.src, pkt.dst) \in DOMAIN flows /\ flows[FlowKey(pkt.src, pkt.dst)].revFlow
    /\ EchoKey(pkt) \notin DOMAIN tsTbl
    /\ \E i \in Samples :
          /\ out[i].flow = RevKey(pkt.src, pkt.dst) /\ DstIP(out[i].flow) = localIP
          /\ trace[out[i].pkt].p.tsval = pkt.tsecr
          /\ trace[nPkts].w - trace[out[i].pkt].w <= tsvalMaxAge

\* C15: when --showLocal is not given, on a live interface whose local
\* address can be discovered, local filtering is in effect when packets are
\* processed (filt_local is true and local_ip is that address); giving
\* --showLocal turns filtering off; when the local address cannot be
\* discovered filtering is off.
C15_FilterByDefault ==
    /\ (args.live /\ ~args.l /\ args.addr # "") => (filtLocal /\ localIP = args.addr)
    /\ args.l => ~filtLocal
    /\ (args.live /\ args.addr = "") => ~filtLocal

\* the packet of the step passes the bi-directionality gate and so reaches
\* the TS insert and the echo match
ReachesMatch == Eligible(pkt') /\ StepFlow \in DOMAIN flows' /\ flows'[StepFlow].revFlow

\* C16: whenever the echo-match step of a packet on flow fkey finds a pending
\* TS entry (t > 0) under (rkey, TSecr), a flow record for rkey is in the flow
\* table, so that the write of its bytes_departed has a target; after any
\* interleaving of packets and sweeper passes and for every pair of
\* tsval_max_age and flow_max_idle.
C16_ReverseRecord ==
    [][(PacketStep /\ ReachesMatch /\ EchoKey(pkt') \in DOMAIN tsTbl /\ tsTbl[EchoKey(pkt')].t > 0) =>
        (StepRev \in DOMAIN flows /\ pc' # "panic")]_vars

\* a step of the summary block of main's loop
SumStep == pc = "sum"

\* C17: when a periodic summary is emitted, pkt_cnt, no_TS, uni_dir, not_tcp
\* and not_v4or6 are reset to zero and flow_cnt is left unchanged; the first
\* time the schedule is armed nothing is printed and nothing is reset; after
\* each emission next_sum = cap_tm + sum_interval; with sum_interval = 0 no
\* periodic summary is ever emitted and the counters are never reset.
C17_SummaryReset ==
    [][/\ SumStep =>
            /\ Len(sums') \in {Len(sums), Len(sums) + 1}
            /\ Len(sums') = Len(sums) + 1 =>
                  /\ sums'[Len(sums')] = printSummary
                  /\ pktCnt' = 0 /\ no_TS' = 0 /\ uniDir' = 0 /\ not_tcp' = 0 /\ not_v4or6' = 0
                  /\ nxtSum' = capTm + sumInt
            /\ Len(sums') = Len(sums) => UNCHANGED counters
            /\ (nxtSum = 0 /\ sumInt > 0) =>
                  /\ sums' = sums /\ UNCHANGED counters
                  /\ nxtSum' = capTm + sumInt /\ nxtSum' > 0
            /\ sumInt = 0 => sums' = sums /\ nxtSum' = nxtSum
            /\ UNCHANGED <<flowCnt, flows, tsTbl>>
       /\ sumInt = 0 =>
            /\ (pc' # "done" => sums' = << >>)
            /\ pktCnt' >= pktCnt /\ no_TS' >= no_TS /\ uniDir' >= uniDir
            /\ not_tcp' >= not_tcp /\ not_v4or6' >= not_v4or6
      ]_vars

\* a periodic summary has just been printed with packets counted in three of
\* its categories; the counters are zero and the two flow records are counted
C17_Witness ==
    /\ pc = "clean" /\ sums # << >>
    /\ sums[Len(sums)].pkts > 0 /\ sums[Len(sums)].uni > 0
    /\ sums[Len(sums)].notTCP + sums[Len(sums)].noTS + sums[Len(sums)].notIP > 0
    /\ sums[Len(sums)].flows = 2 /\ flowCnt = 2
    /\ pktCnt = 0 /\ no_TS = 0 /\ uniDir = 0 /\ not_tcp = 0 /\ not_v4or6 = 0
    /\ nxtSum = capTm + sumInt

\* total wire length of the packets j..nPkts of directed flow f that passed
\* the three rejection tests
RECURSIVE LenFrom(_, _)
LenFrom(f, j) ==
    IF j > nPkts THEN 0
    ELSE (IF Eligible(trace[j].p) /\ FlowKey(trace[j].p.src, trace[j].p.dst) = f THEN trace[j].p.len ELSE 0)
            + LenFrom(f, j + 1)

\* the step inserts the TS entry of its packet
Inserts == PacketStep /\ DepKey(pkt') \notin DOMAIN tsTbl /\ DepKey(pkt') \in DOMAIN tsTbl'

\* f_bytes of a new TS entry is the flow's bytes_sent with the inserting
\* packet included
C18_FBytesAtInsert ==
    Inserts =>
        /\ tsTbl'[DepKey(pkt')].fBytes = flows'[StepFlow].bytesSnt
        /\ StepFlow \in DOMAIN flows => flows'[StepFlow].bytesSnt = flows[StepFlow].bytesSnt + pkt'.len

\* C18 as stated: bytes_sent of every flow record is the cumulative wire
\* length of all packets of the directed flow that reached flow acquisition
\* since the record was created, and f_bytes of a TS entry is the flow's
\* bytes_sent, the inserting packet included, at insertion time.
C18_BytesAllPackets ==
    /\ [](\A f \in DOMAIN flows : flows[f].bytesSnt = LenFrom(f, life[f].born))
    /\ [][C18_FBytesAtInsert]_vars

\* bytes_sent counts the packets from the one that set revFlow on
C18_BytesSinceBidir ==
    \A f \in DOMAIN flows :
        /\ flows[f].revFlow <=> life[f].paired > 0
        /\ flows[f].bytesSnt = (IF life[f].paired = 0 THEN 0 ELSE LenFrom(f, life[f].paired))
        /\ flows[f].bytesSnt <= LenFrom(f, life[f].born)

\* C18 as amended: bytes_sent of every flow record is the cumulative wire
\* length of the packets of the directed flow that passed the
\* bi-directionality gate, that is of its packets since reverse_seen was set
\* on the record; the packets counted as uni-directional before that are not
\* included, so bytes_sent is at most the length of all packets since the
\* record was created.  f_bytes of a TS entry is the flow's bytes_sent, the
\* inserting packet included, at insertion time.
C18_BytesSent == []C18_BytesSinceBidir /\ [][C18_FBytesAtInsert]_vars

\* a packet has just inserted its TS entry on a flow that had a packet counted
\* as uni-directional before: f_bytes and bytes_sent are the packet's length,
\* less than the length of all packets of the record
C18_Witness ==
    /\ pc = "term" /\ Eligible(pkt)
    /\ LET f == FlowKey(pkt.src, pkt.dst) IN
        /\ f \in DOMAIN flows /\ life[f].born < life[f].paired
        /\ DepKey(pkt) \in DOMAIN tsTbl /\ firstDep[DepKey(pkt)].n = nPkts
        /\ tsTbl[DepKey(pkt)].fBytes = flows[f].bytesSnt
        /\ flows[f].bytesSnt = pkt.len /\ pkt.len > 1
        /\ LenFrom(f, life[f].born) > flows[f].bytesSnt

\* no sample has come from the entry now in the table under TS key k
Unmatched(k) == \A i \in Samples : out[i].key = k => out[i].pkt < firstDep[k].n

\* every TS entry is positive until its first match
C19_UnmatchedPositive == \A k \in DOMAIN tsTbl : Unmatched(k) => tsTbl[k].t > 0

\* the first echo of an unmatched entry, on a flow whose reverse record is in
\* the table, gives a sample
C19_FirstEchoMatches ==
    (PacketStep /\ ReachesMatch /\ StepRev \in DOMAIN flows
        /\ EchoKey(pkt') \in DOMAIN tsTbl /\ Unmatched(EchoKey(pkt'))) =>
            /\ Len(out') = Len(out) + 1 /\ out'[Len(out')].key = EchoKey(pkt')
            /\ tsTbl'[EchoKey(pkt')].t < 0

\* C19: every TS entry has t > 0 from the moment it is inserted until its
\* first successful match, only a match negates t, so every inserted anchor
\* can be matched by the first echo of its TSval; for every capture time at
\* which an entry can be inserted, cap_tm = 0 included.
C19_PendingPositive == []C19_UnmatchedPositive /\ [][C19_FirstEchoMatches]_vars

\* the step creates the flow record of its packet
Creates == PacketStep /\ StepFlow \notin DOMAIN flows /\ StepFlow \in DOMAIN flows'

\* a new record and its sibling both get reverse_seen when the sibling is in
\* the table, otherwise the new record has it false
C20_OnCreation ==
    Creates =>
        IF StepRev \in DOMAIN flows
        THEN flows'[StepFlow].revFlow /\ StepRev \in DOMAIN flows' /\ flows'[StepRev].revFlow
        ELSE ~flows'[StepFlow].revFlow

\* when both directions of a pair are in the flow table, both records have
\* reverse_seen
C20_BothSeen ==
    \A f \in DOMAIN flows :
        RevKey(f[1], f[2]) \in DOMAIN flows => flows[f].revFlow /\ flows[RevKey(f[1], f[2])].revFlow

\* C20: when lookup-or-insert creates a record for fkey while a record for
\* rkey exists, reverse_seen is set on both records, otherwise the new record
\* has reverse_seen = false; so in every reachable state in which both
\* directions of a pair are in the flow table both records have reverse_seen,
\* also after one side was evicted and created again.
C20_ReverseSeen == []C20_BothSeen /\ [][C20_OnCreation]_vars

\* the record of the packet has just been created again after its eviction,
\* beside a sibling that was paired with the evicted record; both have
\* reverse_seen
C20_Witness ==
    /\ pc = "term" /\ Eligible(pkt)
    /\ LET f == FlowKey(pkt.src, pkt.dst)
           r == RevKey(pkt.src, pkt.dst)
       IN  /\ f \in DOMAIN flows /\ r \in DOMAIN flows
           /\ life[f].born = nPkts /\ life[f].paired = nPkts
           /\ life[r].paired > 0 /\ life[r].paired < nPkts
           /\ \E j \in 1..(nPkts - 1) : Eligible(trace[j].p) /\ FlowKey(trace[j].p.src, trace[j].p.dst) = f
           /\ flows[f].revFlow /\ flows[r].revFlow

\* the rejection test, if any, at which processPacket returns on packet p
RejectedAt(p) ==
    IF ~p.tcp THEN "not_tcp"
    ELSE IF p.tsval = 0 \/ (p.tsecr = 0 /\ ~p.syn) THEN "no_TS"
    ELSE IF ~p.ip THEN "not_v4or6"
    ELSE "none"

\* a rejected packet increments its counter and no other, and leaves the
\* tables and the clock as they are; the clock is anchored by a packet that
\* passes the three tests while off_tm is unset, and changed by no other
C21_RejectStep ==
    PacketStep =>
        LET r == RejectedAt(pkt') IN
        /\ not_tcp' = not_tcp + (IF r = "not_tcp" THEN 1 ELSE 0)
        /\ no_TS' = no_TS + (IF r = "no_TS" THEN 1 ELSE 0)
        /\ not_v4or6' = not_v4or6 + (IF r = "not_v4or6" THEN 1 ELSE 0)
        /\ r # "none" =>
              /\ flows' = flows /\ tsTbl' = tsTbl /\ flowCnt' = flowCnt
              /\ pktCnt' = pktCnt /\ uniDir' = uniDir
              /\ offTm' = offTm /\ startm' = startm /\ capTm' = capTm
              /\ out' = out
        /\ (r = "none" /\ offTm < 0) => offTm' >= 0 /\ capTm' = startm'
        /\ offTm >= 0 => offTm' = offTm /\ startm' = startm

\* the clock is unset until a packet has passed the three tests
C21_ClockUnset ==
    offTm < 0 <=> \A j \in 1..nPkts : RejectedAt(trace[j].p) # "none"

\* C21: a packet rejected at steps 1-3 (no TCP layer, ineligible timestamps,
\* neither IPv4 nor IPv6) increments exactly one counter (not_tcp, no_TS or
\* not_v4or6, tested in that order) and leaves the flow table, the TS table,
\* flow_count, pkt_cnt, uni_dir and the clock state off_tm, start_m, cap_tm
\* unchanged; the clock is anchored only by the first packet that passes all
\* three tests.
C21_RejectedFrame == []C21_ClockUnset /\ [][C21_RejectStep]_vars

\* three packets have been rejected, one at each test, the second of them a
\* packet without IP layer counted as no_TS; the clock is still unset
C21_Witness ==
    /\ pc = "term" /\ nPkts = 3 /\ offTm < 0 /\ capTm = 0
    /\ not_tcp = 1 /\ no_TS = 1 /\ not_v4or6 = 1
    /\ \E j \in 1..3 : trace[j].p.tcp /\ ~trace[j].p.ip /\ RejectedAt(trace[j].p) = "no_TS"
    /\ flows = EmptyMap /\ tsTbl = EmptyMap

\* the samples emitted for the record now in the table under flow key f
SamplesOf(f) == {i \in Samples : out[i].flow = f /\ out[i].pkt >= life[f].born}

\* the sum of pBytes over the samples with indices in S
RECURSIVE SumPBytes(_)
SumPBytes(S) == IF S = {} THEN 0 ELSE LET i == CHOOSE x \in S : TRUE IN out[i].pBytes + SumPBytes(S \ {i})

\* last_bytes_sent_at_report is at most bytes_sent; every pBytes is at least
\* the length of its echoing packet; while the program runs the pBytes of a
\* record's samples add up to its last_bytes_sent_at_report
C22_ReportMark ==
    /\ \A f \in DOMAIN flows : flows[f].lstBytesSnt <= flows[f].bytesSnt
    /\ \A i \in Samples : out[i].pBytes >= trace[out[i].pkt].p.len /\ out[i].pBytes >= 0
    /\ pc # "panic" => \A f \in DOMAIN flows : SumPBytes(SamplesOf(f)) = flows[f].lstBytesSnt

\* right after a sample last_bytes_sent_at_report is bytes_sent
C22_AfterSample ==
    (PacketStep /\ out' # out) =>
        /\ flows'[StepFlow].lstBytesSnt = flows'[StepFlow].bytesSnt
        /\ out'[Len(out')].pBytes =
              flows'[StepFlow].bytesSnt - (IF StepFlow \in DOMAIN flows THEN flows[StepFlow].lstBytesSnt ELSE 0)

\* C22: for every flow record last_bytes_sent_at_report <= bytes_sent in
\* every reachable state; every emitted pBytes is at least the wire length of
\* the echoing packet, hence not negative; the sum of pBytes over all samples
\* emitted for a record equals the record's last_bytes_sent_at_report, which
\* equals bytes_sent immediately after each sample.
C22_PBytes == []C22_ReportMark /\ [][C22_AfterSample]_vars

\* the second sample of a record has just been emitted, after a sample of
\* the reverse record whose pBytes covers an earlier packet too
C22_Witness ==
    /\ JustSampled /\ pc = "term"
    /\ LET s == out[Len(out)] IN
        /\ s.flow \in DOMAIN flows
        /\ Cardinality(SamplesOf(s.flow)) >= 2
        /\ \E i \in Samples : out[i].pBytes > trace[out[i].pkt].p.len
        /\ flows[s.flow].lstBytesSnt = flows[s.flow].bytesSnt
        /\ SumPBytes(SamplesOf(s.flow)) = flows[s.flow].bytesSnt

====
